---- MODULE Spec2Model ----
(***************************************************************************)
(* Payment-method, subscription and purchase reconciliation of the aura    *)
(* backend (src-tauri).                                                    *)
(*                                                                         *)
(* The relational backend's payment_methods table and the profile's        *)
(* stripe_customer_id are the local state; the payment processor holds,    *)
(* per payment method, the customer it is attached to and, per customer,   *)
(* the invoice-settings default payment method.  Every command is one      *)
(* action; each remote request of a command can fail, and the outcome of   *)
(* a command is drawn from the set of outcomes its code can produce.       *)
(*                                                                         *)
(* Five specifications share the variables: Spec runs the payment-method   *)
(* commands, SpecSub the subscription commands over a stored set of        *)
(* payment methods, SpecPurchase the purchase commands, SpecRace two       *)
(* overlapping setDefault calls request by request, SpecLocal the commands *)
(* on the device's stores and the password hash.                           *)
(***************************************************************************)
EXTENDS Integers, Sequences, FiniteSets, TLC

\* ------------------------------------------------------------------ bounds
MaxRows == 2
MaxSubs == 1
MaxPurchases == 1

\* ------------------------------------------------------------ input domains
Users == {"u1"}
Customers == {"cus_1", "cus_2"}
PMs == {"pm_A", "pm_B"}
\* setup intents are created for payment_method_types ["card"] only
CardPMs == PMs
\* the customer id the UI holds for a user (get_or_create_customer) and passes
\* to the commands; cus_2 is some other customer of the processor account
CustomerOf == [u \in Users |-> "cus_1"]
NoCustomer == "no_customer"
NoPM == "no_pm"
\* Profile.subscription_id / subscription_status / subscription_period_end, all None
NoSubscription ==
    [subscription_id |-> 0, subscription_status |-> "none", subscription_period_end |-> 0]

\* session.store without tokens: store.get(..) is None for both keys
NoTokens == [access_token |-> <<>>, refresh_token |-> <<>>]
Tokens == {"tok_1", "tok_2"}
StoreIds == {"app_data"}
BackupNames == {"daily"}
\* a store after store.clear(): store.get(..) is None for every key
EmptyStore == [data |-> <<>>, restored_from |-> <<>>]
\* the JSON values written to a store's "data" key
Data == {"d1", "d2"}
Passwords == {"password1", "password2"}

\* Option<bool>: None is <<>>, Some(b) is <<b>>
OptBool == {<<>>, <<TRUE>>, <<FALSE>>}

unwrap_or(opt, d) == IF opt = <<>> THEN d ELSE opt[1]

VARIABLES
    rows,          \* payment_methods table, in creation order (created_at ascending)
    profile,       \* profiles.stripe_customer_id per user
    pmCustomer,    \* processor: PaymentMethod.customer
    custDefault,   \* processor: Customer.invoice_settings.default_payment_method
    pristine,      \* only register/setDefault calls so far, none with a discarded failure
    subs,          \* processor: the subscriptions, sub_<i> being subs[i]
    subHad,        \* per subscription, the statuses it has had on the processor
    subscription,  \* profiles.subscription_id / _status / _period_end per user
    packages,      \* packages table
    package_prices,\* package_prices table
    purchases,     \* purchases table
    calls,         \* the setDefault calls in progress, request by request
    session,       \* session.store: sb-access-token, sb-refresh-token
    lastTokens,    \* what the last command on the session told its caller is stored
    store,         \* per store id, the "data" and "restored_from" keys of <id>.store
    backup,        \* per store id and backup name, the "data" key of the backup store
    backedUp,      \* per store id and backup name, the data the store held at the last backup
    hashCache      \* PASSWORD_HASH_CACHE

pmVars == <<rows, profile, pmCustomer, custDefault, pristine>>

subVars == <<subs, subHad, subscription>>

purchaseVars == <<packages, package_prices, purchases>>

raceVars == <<calls>>

localVars == <<session, lastTokens, store, backup, backedUp, hashCache>>

vars == <<rows, profile, pmCustomer, custDefault, pristine,
          subs, subHad, subscription, packages, package_prices, purchases,
          calls, session, lastTokens, store, backup, backedUp, hashCache>>

\* ---------------------------------------------------------------- database
PaymentMethod(u, c, pm, d, a) ==
    [user_id |-> u, stripe_customer_id |-> c, stripe_payment_method_id |-> pm,
     is_default |-> d, is_active |-> a]

Reverse(s) == [i \in 1..Len(s) |-> s[Len(s) + 1 - i]]

\* GET payment_methods?user_id=eq.u&order=is_default.desc,created_at.desc
get_user_payment_methods(rs, u) ==
    LET mine == SelectSeq(rs, LAMBDA r : r.user_id = u)
        newestFirst == Reverse(mine)
    IN  SelectSeq(newestFirst, LAMBDA r : r.is_default)
          \o SelectSeq(newestFirst, LAMBDA r : ~r.is_default)

\* mutant: the filter reads is_default=eq.false, so no default row is matched
unset_all_default_payment_methods_wrong_filter(rs, u) ==
    [i \in 1..Len(rs) |->
        IF rs[i].user_id = u /\ ~rs[i].is_default /\ rs[i].is_active
        THEN [rs[i] EXCEPT !.is_default = FALSE]
        ELSE rs[i]]

\* PATCH payment_methods?user_id=eq.u&is_default=eq.true&is_active=eq.true {is_default: false}
unset_all_default_payment_methods(rs, u) ==
    [i \in 1..Len(rs) |->
        IF rs[i].user_id = u /\ rs[i].is_default /\ rs[i].is_active
        THEN [rs[i] EXCEPT !.is_default = FALSE]
        ELSE rs[i]]

\* mutant: the first-method clause is missing
should_be_default_requested_only(is_default, existing_methods) ==
    unwrap_or(is_default, FALSE)

\* should_be_default of store_payment_method
should_be_default(is_default, existing_methods) ==
    unwrap_or(is_default, FALSE) \/ existing_methods = <<>>

\* should_set_default of store_payment_method_after_setup
should_set_default(is_default) == unwrap_or(is_default, TRUE)

\* The outcomes of the best-effort unset: the request succeeds, or it fails
\* and its result is discarded.
UnsetOutcomes(rs, u) ==
    {[rows |-> unset_all_default_payment_methods(rs, u), silent |-> FALSE],
     [rows |-> rs, silent |-> TRUE]}

\* mutant: the row is inserted although the request is reported as failed
store_payment_method_insert_kept(rs, u, c, pm, is_default) ==
    LET existing_methods == get_user_payment_methods(rs, u)
        sbd == should_be_default(is_default, existing_methods)
        afterUnset == IF sbd THEN UnsetOutcomes(rs, u)
                      ELSE {[rows |-> rs, silent |-> FALSE]}
    IN  {[rows |-> rs, ok |-> FALSE, silent |-> FALSE]}
        \cup {[rows |-> Append(o.rows, PaymentMethod(u, c, pm, sbd, TRUE)),
               ok |-> FALSE, silent |-> o.silent] : o \in afterUnset}
        \cup {[rows |-> Append(o.rows, PaymentMethod(u, c, pm, sbd, TRUE)),
               ok |-> TRUE, silent |-> o.silent] : o \in afterUnset}

\* database::store_payment_method: outcomes [rows, ok, silent]
store_payment_method(rs, u, c, pm, is_default) ==
    LET existing_methods == get_user_payment_methods(rs, u)
        sbd == should_be_default(is_default, existing_methods)
        afterUnset == IF sbd THEN UnsetOutcomes(rs, u)
                      ELSE {[rows |-> rs, silent |-> FALSE]}
    IN  {[rows |-> rs, ok |-> FALSE, silent |-> FALSE]}          \* the list request fails
        \cup {[rows |-> o.rows, ok |-> FALSE, silent |-> o.silent] : o \in afterUnset}
        \cup {[rows |-> Append(o.rows, PaymentMethod(u, c, pm, sbd, TRUE)),
               ok |-> TRUE, silent |-> o.silent] : o \in afterUnset}

\* mutant: the PATCH that sets a default clears it on the user's other rows
patch_payment_method_exclusive(rs, pm, u, is_default, is_active) ==
    [i \in 1..Len(rs) |->
        IF rs[i].stripe_payment_method_id = pm /\ rs[i].user_id = u
        THEN [rs[i] EXCEPT !.is_default = unwrap_or(is_default, @),
                           !.is_active = unwrap_or(is_active, @)]
        ELSE IF rs[i].user_id = u /\ is_default = <<TRUE>>
        THEN [rs[i] EXCEPT !.is_default = FALSE]
        ELSE rs[i]]

\* PATCH payment_methods?stripe_payment_method_id=eq.pm&user_id=eq.u
patch_payment_method(rs, pm, u, is_default, is_active) ==
    [i \in 1..Len(rs) |->
        IF rs[i].stripe_payment_method_id = pm /\ rs[i].user_id = u
        THEN [rs[i] EXCEPT !.is_default = unwrap_or(is_default, @),
                           !.is_active = unwrap_or(is_active, @)]
        ELSE rs[i]]

HasRow(rs, pm, u) ==
    \E i \in 1..Len(rs) : rs[i].stripe_payment_method_id = pm /\ rs[i].user_id = u

\* database::update_payment_method: outcomes [rows, ok, silent]
update_payment_method(rs, pm, u, is_default, is_active) ==
    LET afterUnset == IF is_default = <<TRUE>> THEN UnsetOutcomes(rs, u)
                      ELSE {[rows |-> rs, silent |-> FALSE]}
    IN  {[rows |-> rs, ok |-> FALSE, silent |-> FALSE]}          \* no authenticated db
        \cup {[rows |-> o.rows, ok |-> FALSE, silent |-> o.silent] : o \in afterUnset}
        \cup {[rows |-> patch_payment_method(o.rows, pm, u, is_default, is_active),
               ok |-> HasRow(o.rows, pm, u),    \* an empty representation is an error
               silent |-> o.silent] : o \in afterUnset}

\* database::ensure_single_payment_method_is_default: outcomes [rows, silent];
\* its caller discards the result, so a failure inside it is silent
ensure_single_payment_method_is_default(rs, u) ==
    LET payment_methods == get_user_payment_methods(rs, u)
    IN  {[rows |-> rs, silent |-> TRUE]}                          \* the list request fails
        \cup IF Len(payment_methods) = 1 /\ ~payment_methods[1].is_default
             THEN {[rows |-> o.rows, silent |-> o.silent \/ ~o.ok] :
                     o \in update_payment_method(rs,
                              payment_methods[1].stripe_payment_method_id, u, <<TRUE>>, <<>>)}
             ELSE {[rows |-> rs, silent |-> FALSE]}

\* mutant: the filter names the row id column, which no payment-method id matches
delete_rows_wrong_column(rs, pm, u) ==
    SelectSeq(rs, LAMBDA r : ~(r.user_id = pm /\ r.user_id = u))

\* DELETE payment_methods?stripe_payment_method_id=eq.pm&user_id=eq.u
delete_rows(rs, pm, u) ==
    SelectSeq(rs, LAMBDA r : ~(r.stripe_payment_method_id = pm /\ r.user_id = u))

\* database::delete_payment_method_from_db: outcomes [rows, ok, silent]
delete_payment_method_from_db(rs, pm, u) ==
    {[rows |-> rs, ok |-> FALSE, silent |-> FALSE]}               \* the request fails
    \cup {[rows |-> e.rows, ok |-> TRUE, silent |-> e.silent] :
            e \in ensure_single_payment_method_is_default(delete_rows(rs, pm, u), u)}

\* --------------------------------------------------------------- commands
\* A command in progress: the state it has produced so far (st), what it was
\* called with, was answered and returns (l), and whether it is still running
\* (go) or has returned.  A command's operator gives the set of its possible
\* executions from the current state, one for every way its requests can be
\* answered.
State == [rows |-> rows, profile |-> profile,
          pmCustomer |-> pmCustomer, custDefault |-> custDefault]

Call(op, u, c, pm, is_default) ==
    [op |-> op, user_id |-> u, customer_id |-> c, payment_method_id |-> pm,
     is_default |-> is_default, res |-> "Ok",
     attach |-> "none", detach |-> "none", customer_update |-> "none",
     removed |-> FALSE, silent |-> FALSE]

Return(p, res) == [p EXCEPT !.go = FALSE, !.l.res = res]

Then(P, Step(_)) == UNION {IF p.go THEN Step(p) ELSE {p} : p \in P}

\* stripe::PaymentMethod::retrieve
Retrieve(p, err) == {p, Return(p, err)}

\* stripe::PaymentMethod::attach, tried only for a method attached to no
\* customer: the processor attaches it, rejects it as previously used
\* without being attached, or the request fails otherwise
Attach(p, pm, c) ==
    {[p EXCEPT !.st.pmCustomer[pm] = c, !.l.attach = "ok"],
     [p EXCEPT !.l.attach = "unusable"],
     [p EXCEPT !.l.attach = "error"]}

\* mutant: the error of the customer update is dropped and the command goes on
CustomerUpdate_error_dropped(p, c, pm) ==
    {[p EXCEPT !.st.custDefault[c] = pm, !.l.customer_update = "ok"],
     [p EXCEPT !.l.customer_update = "error"]}

\* stripe::Customer::update of invoice_settings.default_payment_method
CustomerUpdate(p, c, pm) ==
    {[p EXCEPT !.st.custDefault[c] = pm, !.l.customer_update = "ok"],
     Return([p EXCEPT !.l.customer_update = "error"], "CustomerUpdateErr")}

\* mutant: the attach is issued whatever the method's customer
needs_attach_always(customer) == TRUE

\* payment_method.customer.is_none()
needs_attach(customer) == customer = NoCustomer

\* stripe::store_payment_method_after_setup, called in state s of the two systems
store_payment_method_after_setup_from(s, c, pm, u, is_default) ==
    LET start == {[st |-> s, l |-> Call("register", u, c, pm, is_default), go |-> TRUE]}
        retrieved == Then(start, LAMBDA p : Retrieve(p, "RetrieveErr"))
        attached == Then(retrieved, LAMBDA p :
            IF needs_attach(p.st.pmCustomer[pm])
            THEN {IF q.l.attach = "ok" THEN q ELSE Return(q, "AttachErr") :
                    q \in Attach(p, pm, c)}
            ELSE {p})
        defaulted == Then(attached, LAMBDA p :
            IF should_set_default(is_default) THEN CustomerUpdate(p, c, pm) ELSE {p})
        carded == Then(defaulted, LAMBDA p :
            IF pm \in CardPMs THEN {p} ELSE {Return(p, "NoCard")})
        stored == Then(carded, LAMBDA p :
            {LET q == [p EXCEPT !.st.rows = o.rows, !.l.silent = o.silent]
             IN  IF o.ok THEN q ELSE Return(q, "DbErr") :
               o \in store_payment_method(p.st.rows, u, c, pm, is_default)})
        \* PATCH profiles?id=eq.u {stripe_customer_id}; its failure is ignored
        profiled == Then(stored, LAMBDA p :
            {Return([p EXCEPT !.st.profile[u] = c], "Ok"),
             Return([p EXCEPT !.l.silent = TRUE], "Ok")})
    IN  profiled

\* stripe::store_payment_method_after_setup, called in the current state
store_payment_method_after_setup(c, pm, u, is_default) ==
    store_payment_method_after_setup_from(State, c, pm, u, is_default)

\* stripe::set_default_payment_method_integrated
set_default_payment_method_integrated(c, pm, u) ==
    LET start == {[st |-> State, l |-> Call("setDefault", u, c, pm, <<>>), go |-> TRUE]}
        retrieved == Then(start, LAMBDA p : Retrieve(p, "RetrieveErr"))
        attached == Then(retrieved, LAMBDA p :
            IF p.st.pmCustomer[pm] = NoCustomer
            THEN UNION {
                   IF q.l.attach = "ok" THEN {q}
                   ELSE IF q.l.attach = "unusable"
                   THEN \* remove from database, result discarded
                        {Return([q EXCEPT !.st.rows = d.rows,
                                          !.l.removed = d.ok /\ HasRow(q.st.rows, pm, u),
                                          !.l.silent = d.silent \/ ~d.ok], "Unusable") :
                           d \in delete_payment_method_from_db(q.st.rows, pm, u)}
                   ELSE {Return(q, "AttachErr")} :
                   q \in Attach(p, pm, c)}
            ELSE IF p.st.pmCustomer[pm] # c
            THEN {Return(p, "WrongCustomer")}
            ELSE {p})
        \* set_default_payment_method(customer_id, payment_method_id).await?
        defaulted == Then(attached, LAMBDA p : CustomerUpdate(p, c, pm))
        updated == Then(defaulted, LAMBDA p :
            {Return([p EXCEPT !.st.rows = o.rows, !.l.silent = o.silent],
                    IF o.ok THEN "Ok" ELSE "DbErr") :
               o \in update_payment_method(p.st.rows, pm, u, <<TRUE>>, <<>>)})
    IN  updated

\* stripe::delete_payment_method: PaymentMethod::detach
Detach(p, pm) ==
    {IF p.st.pmCustomer[pm] # NoCustomer
     THEN [p EXCEPT !.st.pmCustomer[pm] = NoCustomer, !.l.detach = "ok"]
     ELSE [p EXCEPT !.l.detach = "not_attached"],
     [p EXCEPT !.l.detach = "error"]}

\* mutant: a detach error is never tolerated
detach_tolerated_ok_only(d) == d = "ok"

\* the detach answers delete_payment_method_integrated goes on from: success,
\* or an error saying "not attached to a customer" / "detachment is impossible"
detach_tolerated(d) == d \in {"ok", "not_attached"}

\* stripe::delete_payment_method_integrated
delete_payment_method_integrated(pm, u) ==
    LET start == {[st |-> State, l |-> Call("remove", u, NoCustomer, pm, <<>>), go |-> TRUE]}
        detached == Then(start, LAMBDA p :
            {IF detach_tolerated(q.l.detach) THEN q ELSE Return(q, "DetachErr") :
               q \in Detach(p, pm)})
        deleted == Then(detached, LAMBDA p :
            {Return([p EXCEPT !.st.rows = d.rows, !.l.silent = d.silent,
                              !.l.removed = d.ok /\ HasRow(p.st.rows, pm, u)],
                    IF d.ok THEN "Ok" ELSE "DbErr") :
               d \in delete_payment_method_from_db(p.st.rows, pm, u)})
    IN  deleted

\* database::update_payment_method invoked as a command of its own
update_payment_method_command(pm, u, is_default, is_active) ==
    {[st |-> [State EXCEPT !.rows = o.rows],
      l |-> [Call("update", u, NoCustomer, pm, <<>>) EXCEPT
               !.silent = o.silent, !.res = IF o.ok THEN "Ok" ELSE "DbErr"],
      go |-> FALSE] :
       o \in update_payment_method(rows, pm, u, is_default, is_active)}

\* ------------------------------------------------------------ state machine
\* no call in progress; empty stores on the device, no password hashed yet
InitRest ==
    /\ calls = <<>>
    /\ session = NoTokens
    /\ lastTokens = [op |-> "none", settled |-> TRUE, pair |-> <<>>]
    /\ store = [s \in StoreIds |-> EmptyStore]
    /\ backup = [b \in StoreIds \X BackupNames |-> <<>>]
    /\ backedUp = [b \in StoreIds \X BackupNames |-> [taken |-> "never", data |-> <<>>]]
    /\ hashCache = <<>>

Init ==
    /\ rows = <<>>
    /\ profile = [u \in Users |-> NoCustomer]
    /\ pmCustomer \in [PMs -> Customers \cup {NoCustomer}]
    /\ custDefault = [c \in Customers |-> NoPM]
    /\ pristine = TRUE
    /\ subs = <<>>
    /\ subHad = <<>>
    /\ subscription = [u \in Users |-> NoSubscription]
    /\ packages = <<>>
    /\ package_prices = <<>>
    /\ purchases = <<>>
    /\ InitRest

Commit(p) ==
    /\ Len(p.st.rows) <= MaxRows
    /\ rows' = p.st.rows
    /\ profile' = p.st.profile
    /\ pmCustomer' = p.st.pmCustomer
    /\ custDefault' = p.st.custDefault
    /\ pristine' = (pristine /\ p.l.op \in {"register", "setDefault"} /\ ~p.l.silent)
    /\ UNCHANGED <<subVars, purchaseVars, raceVars, localVars>>

RegisterOutcomes ==
    UNION {store_payment_method_after_setup(CustomerOf[u], pm, u, is_default) :
             <<pm, u, is_default>> \in PMs \X Users \X OptBool}

SetDefaultOutcomes ==
    UNION {set_default_payment_method_integrated(CustomerOf[u], pm, u) :
             <<pm, u>> \in PMs \X Users}

RemoveOutcomes ==
    UNION {delete_payment_method_integrated(pm, u) : <<pm, u>> \in PMs \X Users}

UpdateOutcomes ==
    UNION {update_payment_method_command(pm, u, is_default, is_active) :
             <<pm, u, is_default, is_active>> \in PMs \X Users \X OptBool \X OptBool}

RegisterPaymentMethod == \E p \in RegisterOutcomes : Commit(p)

SetDefault == \E p \in SetDefaultOutcomes : Commit(p)

Remove == \E p \in RemoveOutcomes : Commit(p)

UpdatePaymentMethod == \E p \in UpdateOutcomes : Commit(p)

Next ==
    \/ RegisterPaymentMethod
    \/ SetDefault
    \/ Remove
    \/ UpdatePaymentMethod

Spec == Init /\ [][Next]_vars

\* ------------------------------------------------------------ subscriptions
\* the processor's SubscriptionStatus values the model distinguishes
Statuses == {"active", "past_due", "canceled"}
\* current_period_end values, in epoch order
PeriodEnds == {1, 2}
Prices == {"price_1"}

\* a processor subscription as created by create_subscription
Subscription(c, pm, u) ==
    [customer |-> c, default_payment_method |-> pm, user_id |-> u,
     status |-> "active", current_period_end |-> 1, cancel_at_period_end |-> FALSE]

SubState == [rows |-> rows, profile |-> profile,
             pmCustomer |-> pmCustomer, custDefault |-> custDefault,
             subs |-> subs, subHad |-> subHad, subscription |-> subscription]

\* what a subscription command was called with, was answered and returns
SubCall(op, u, sid) ==
    [op |-> op, user_id |-> u, subscription_id |-> sid,
     customer_id |-> NoCustomer, payment_method_id |-> NoPM, res |-> "Ok",
     attach |-> "none", customer_update |-> "none",
     sub_create |-> "none", sub_update |-> "none", sub_retrieve |-> "none",
     write |-> "none", created |-> 0, status |-> "none",
     updated_subscriptions |-> 0, errors |-> 0]

\* the orders in which a query without an order parameter can return rows
Orderings(s) ==
    {[i \in 1..Len(s) |-> s[f[i]]] :
       f \in {g \in [1..Len(s) -> 1..Len(s)] :
                \A i, j \in 1..Len(s) : g[i] = g[j] => i = j}}

\* payment_methods.iter().find(|pm| pm.is_default).or_else(|| payment_methods.first())
default_pm(payment_methods) ==
    LET defaults == SelectSeq(payment_methods, LAMBDA r : r.is_default)
    IN  IF defaults # <<>> THEN defaults[1] ELSE payment_methods[1]

\* mutant: a profile without customer reference is not rejected
has_customer_unchecked(customer) == TRUE

\* profile.stripe_customer_id.as_ref().ok_or(..)
has_customer(customer) == customer # NoCustomer

\* mutant: the subscription is created with no default payment method of its own
subscription_payment_method_unset(pm_id) == NoPM

\* params.default_payment_method = Some(&payment_method_id_str)
subscription_payment_method(pm_id) == pm_id

\* stripe::Subscription::create
SubscriptionCreate(p, c, pm, u) ==
    {[p EXCEPT !.st.subs = Append(@, Subscription(c, subscription_payment_method(pm), u)),
               !.st.subHad = Append(@, {"active"}),
               !.l.sub_create = "ok", !.l.created = Len(p.st.subs) + 1,
               !.l.status = "active"],
     Return([p EXCEPT !.l.sub_create = "error"], "SubscriptionErr")}

\* mutant: the profile is written although the request is reported as failed
update_subscription_status_written_on_error(p, u, c, sid, status, period_end) ==
    {[p EXCEPT !.st.profile[u] = c,
               !.st.subscription[u] =
                   [subscription_id |-> sid, subscription_status |-> status,
                    subscription_period_end |-> period_end],
               !.l.write = "ok"],
     Return([p EXCEPT !.st.subscription[u] =
                   [subscription_id |-> sid, subscription_status |-> status,
                    subscription_period_end |-> period_end],
                !.l.write = "error"], "DbErr")}

\* database::update_subscription_status(..).await?
update_subscription_status(p, u, c, sid, status, period_end) ==
    {[p EXCEPT !.st.profile[u] = c,
               !.st.subscription[u] =
                   [subscription_id |-> sid, subscription_status |-> status,
                    subscription_period_end |-> period_end],
               !.l.write = "ok"],
     Return([p EXCEPT !.l.write = "error"], "DbErr")}

\* stripe::create_subscription
create_subscription(u, price_id) ==
    LET start == {[st |-> SubState, l |-> SubCall("createSubscription", u, 0), go |-> TRUE]}
        \* GET profiles?id=eq.u
        profiled == Then(start, LAMBDA p :
            {Return(p, "DbErr"),
             IF has_customer(p.st.profile[u])
             THEN [p EXCEPT !.l.customer_id = p.st.profile[u]]
             ELSE Return(p, "NoCustomer")})
        \* GET payment_methods?user_id=eq.u
        selected == Then(profiled, LAMBDA p :
            {Return(p, "DbErr")}
            \cup {IF payment_methods = <<>> THEN Return(p, "NoPaymentMethod")
                  ELSE [p EXCEPT !.l.payment_method_id =
                           default_pm(payment_methods).stripe_payment_method_id] :
                    payment_methods \in
                        Orderings(SelectSeq(p.st.rows, LAMBDA r : r.user_id = u))})
        retrieved == Then(selected, LAMBDA p : Retrieve(p, "RetrieveErr"))
        attached == Then(retrieved, LAMBDA p :
            IF needs_attach(p.st.pmCustomer[p.l.payment_method_id])
            THEN {IF q.l.attach = "ok" THEN q ELSE Return(q, "AttachErr") :
                    q \in Attach(p, p.l.payment_method_id, p.l.customer_id)}
            ELSE {p})
        defaulted == Then(attached, LAMBDA p :
            CustomerUpdate(p, p.l.customer_id, p.l.payment_method_id))
        subscribed == Then(defaulted, LAMBDA p :
            SubscriptionCreate(p, p.l.customer_id, p.l.payment_method_id, u))
        written == Then(subscribed, LAMBDA p :
            {Return(q, q.l.res) :
               q \in update_subscription_status(p, u, p.l.customer_id, p.l.created,
                         p.st.subs[p.l.created].status,
                         p.st.subs[p.l.created].current_period_end)})
    IN  written

\* stripe::Subscription::update with cancel_at_period_end = true; the
\* processor rejects the update of a subscription it does not have or has
\* cancelled
SubscriptionUpdate(p, sid) ==
    {Return([p EXCEPT !.l.sub_update = "error"], "SubscriptionErr")}
    \cup IF sid \in 1..Len(p.st.subs) /\ p.st.subs[sid].status # "canceled"
         THEN {[p EXCEPT !.st.subs[sid].cancel_at_period_end = TRUE,
                         !.l.sub_update = "ok",
                         !.l.customer_id = p.st.subs[sid].customer,
                         !.l.status = p.st.subs[sid].status]}
         ELSE {}

\* mutant: the status the processor returned is mirrored
cancel_status_from_processor(sub) == sub.status

\* the status cancel_subscription writes to the profile
cancel_status(sub) == "canceled"

\* stripe::cancel_subscription
cancel_subscription(sid, u) ==
    LET start == {[st |-> SubState, l |-> SubCall("cancelSubscription", u, sid), go |-> TRUE]}
        updated == Then(start, LAMBDA p : SubscriptionUpdate(p, sid))
        written == Then(updated, LAMBDA p :
            {Return(q, q.l.res) :
               q \in update_subscription_status(p, u, p.st.subs[sid].customer, sid,
                         cancel_status(p.st.subs[sid]),
                         p.st.subs[sid].current_period_end)})
    IN  written

\* stripe::Subscription::retrieve
SubscriptionRetrieve(p, sid) ==
    {Return([p EXCEPT !.l.sub_retrieve = "error"], "SubscriptionErr")}
    \cup IF sid \in 1..Len(p.st.subs)
         THEN {[p EXCEPT !.l.sub_retrieve = "ok",
                         !.l.customer_id = p.st.subs[sid].customer,
                         !.l.status = p.st.subs[sid].status]}
         ELSE {}

\* mutant: the sync keeps the status the profile holds
synced_status_from_profile(sub, local) == local.subscription_status

\* subscription.status.to_string() of sync_subscription_status
synced_status(sub, local) == sub.status

\* stripe::sync_subscription_status
sync_subscription_status(P, u, sid) ==
    LET retrieved == Then(P, LAMBDA p : SubscriptionRetrieve(p, sid))
        written == Then(retrieved, LAMBDA p :
            update_subscription_status(p, u, p.st.subs[sid].customer, sid,
                synced_status(p.st.subs[sid], p.st.subscription[u]),
                p.st.subs[sid].current_period_end))
    IN  written

sync_subscription_status_command(u, sid) ==
    {Return(q, q.l.res) :
       q \in sync_subscription_status(
                {[st |-> SubState, l |-> SubCall("syncSubscriptionStatus", u, sid),
                  go |-> TRUE]}, u, sid)}

\* stripe::sync_all_user_subscriptions
sync_all_user_subscriptions(u) ==
    LET start == {[st |-> SubState, l |-> SubCall("syncAllUserSubscriptions", u, 0),
                   go |-> TRUE]}
        \* get_user_profile(..).await
        profiled == Then(start, LAMBDA p : {Return(p, "DbErr"), p})
        synced == Then(profiled, LAMBDA p :
            IF p.st.subscription[u].subscription_id # 0
            THEN {IF q.go
                  THEN Return([q EXCEPT !.l.updated_subscriptions = 1], "Ok")
                  ELSE [q EXCEPT !.l.errors = 1, !.l.res = "Ok"] :
                    q \in sync_subscription_status(
                            {[p EXCEPT !.l.subscription_id =
                                          p.st.subscription[u].subscription_id]},
                            u, p.st.subscription[u].subscription_id)}
            ELSE {Return(p, "Ok")})
    IN  synced

\* The processor moves a subscription on by itself: payments fail and
\* recover, periods renew, and a subscription is cancelled (at the latest
\* when a period ends with cancel_at_period_end set).  A cancelled
\* subscription stays cancelled.
ProcessorMoves(sub) ==
    {[sub EXCEPT !.status = s, !.current_period_end = e] :
       <<s, e>> \in {x \in Statuses \X PeriodEnds :
                       /\ x[2] >= sub.current_period_end
                       /\ x # <<sub.status, sub.current_period_end>>}}

\* the payment-method tables the subscription commands are run over
StoredTables ==
    {<<>>,
     <<PaymentMethod("u1", "cus_1", "pm_A", TRUE, TRUE)>>,
     <<PaymentMethod("u1", "cus_1", "pm_A", TRUE, TRUE),
       PaymentMethod("u1", "cus_1", "pm_B", FALSE, TRUE)>>,
     <<PaymentMethod("u1", "cus_1", "pm_A", FALSE, TRUE),
       PaymentMethod("u1", "cus_1", "pm_B", FALSE, TRUE)>>}

InitSub ==
    /\ rows \in StoredTables
    /\ profile \in [Users -> {NoCustomer, "cus_1"}]
    /\ pmCustomer \in {f \in [PMs -> Customers \cup {NoCustomer}] : f["pm_B"] = "cus_1"}
    /\ custDefault = [c \in Customers |-> NoPM]
    /\ pristine = TRUE
    /\ subs = <<>>
    /\ subHad = <<>>
    /\ subscription = [u \in Users |-> NoSubscription]
    /\ packages = <<>>
    /\ package_prices = <<>>
    /\ purchases = <<>>
    /\ InitRest

CommitSub(p) ==
    /\ Len(p.st.subs) <= MaxSubs
    /\ rows' = p.st.rows
    /\ profile' = p.st.profile
    /\ pmCustomer' = p.st.pmCustomer
    /\ custDefault' = p.st.custDefault
    /\ subs' = p.st.subs
    /\ subHad' = p.st.subHad
    /\ subscription' = p.st.subscription
    /\ UNCHANGED <<pristine, purchaseVars, raceVars, localVars>>

SubIds == 1..(MaxSubs + 1)

CreateSubscriptionOutcomes ==
    UNION {create_subscription(u, price_id) : <<u, price_id>> \in Users \X Prices}

CancelSubscriptionOutcomes ==
    UNION {cancel_subscription(sid, u) : <<sid, u>> \in SubIds \X Users}

SyncSubscriptionStatusOutcomes ==
    UNION {sync_subscription_status_command(u, sid) : <<u, sid>> \in Users \X SubIds}

SyncAllUserSubscriptionsOutcomes ==
    UNION {sync_all_user_subscriptions(u) : u \in Users}

CreateSubscription == \E p \in CreateSubscriptionOutcomes : CommitSub(p)

CancelSubscription == \E p \in CancelSubscriptionOutcomes : CommitSub(p)

SyncSubscriptionStatus == \E p \in SyncSubscriptionStatusOutcomes : CommitSub(p)

SyncAllUserSubscriptions == \E p \in SyncAllUserSubscriptionsOutcomes : CommitSub(p)

ProcessorAdvance ==
    \E i \in 1..Len(subs) :
        /\ subs[i].status # "canceled"
        /\ \E next \in ProcessorMoves(subs[i]) :
              /\ subs' = [subs EXCEPT ![i] = next]
              /\ subHad' = [subHad EXCEPT ![i] = @ \cup {next.status}]
        /\ UNCHANGED <<pmVars, subscription, purchaseVars, raceVars, localVars>>

NextSub ==
    \/ CreateSubscription
    \/ SyncAllUserSubscriptions
    \/ CancelSubscription
    \/ SyncSubscriptionStatus
    \/ ProcessorAdvance

SpecSub == InitSub /\ [][NextSub]_vars

\* ---------------------------------------------------------------- purchases
\* the processor's prices and the product of each; "unknown_price" is the
\* sentinel complete_purchase passes on when the intent names no price, and
\* is no price of the processor
PriceProduct == [price \in {"price_1", "price_2", "price_3"} |->
                    IF price = "price_3" THEN "prod_2" ELSE "prod_1"]
PriceIds == DOMAIN PriceProduct \cup {"unknown_price"}
Products == {"prod_1", "prod_2"}
Amounts == {149, 749, 1499, 3099, 6299, 15999, 777}
Currencies == {"aud"}

\* the processor's payment intents: status, amount, metadata.get("price_id")
PaymentIntents ==
    [pi \in {"pi_1", "pi_2", "pi_3"} |->
        CASE pi = "pi_1" -> [status |-> "succeeded", amount |-> 1499,
                             currency |-> "aud", price_id |-> <<"price_1">>]
          [] pi = "pi_2" -> [status |-> "processing", amount |-> 749,
                             currency |-> "aud", price_id |-> <<"price_2">>]
          [] pi = "pi_3" -> [status |-> "succeeded", amount |-> 777,
                             currency |-> "aud", price_id |-> <<>>]]
PIs == DOMAIN PaymentIntents

\* a package_prices row; token_amount is an i64 (database::PackagePrice)
PackagePrice(id, price, tokens) ==
    [id |-> id, stripe_price_id |-> price, token_amount |-> tokens]

\* a packages row as record_purchase creates it
Package(id, product) ==
    [id |-> id, name |-> "Token Packages", stripe_product_id |-> product,
     token_amount |-> 100]

\* mutant: every amount gets the default
get_token_amount_from_price_default_only(price_cents) == 100

\* stripe::get_token_amount_from_price
get_token_amount_from_price(price_cents) ==
    CASE price_cents = 149 -> 100
      [] price_cents = 749 -> 500
      [] price_cents = 1499 -> 1000
      [] price_cents = 3099 -> 5000
      [] price_cents = 6299 -> 25000
      [] price_cents = 15999 -> 100000
      [] OTHER -> 100

PurchaseState == [packages |-> packages, package_prices |-> package_prices,
                  purchases |-> purchases]

\* what a purchase command was called with, was answered and returns
PurchaseCall(op, u, pi, price, amount, currency) ==
    [op |-> op, user_id |-> u, stripe_payment_intent_id |-> pi,
     stripe_price_id |-> price, amount_paid |-> amount, currency |-> currency,
     res |-> "Ok", intent_status |-> "none", stripe_product_id |-> "none",
     package_created |-> FALSE, inserted |-> FALSE]

\* mutant: the lookup names a column no product id matches
packages_by_product_wrong_column(pk, product) ==
    SelectSeq(pk, LAMBDA r : r.name = product)

\* GET packages?select=id,name,stripe_product_id&stripe_product_id=eq.product
packages_by_product(pk, product) ==
    SelectSeq(pk, LAMBDA r : r.stripe_product_id = product)

\* GET package_prices?select=id,token_amount&stripe_price_id=eq.price
package_prices_by_price(pp, price) ==
    SelectSeq(pp, LAMBDA r : r.stripe_price_id = price)

\* mutant: the tokens always come from the amount table
package_price_and_tokens_table_only(package_price_array, amount_paid) ==
    IF package_price_array # <<>>
    THEN [package_price_id |-> <<package_price_array[1].id>>,
          token_amount |-> get_token_amount_from_price(amount_paid)]
    ELSE [package_price_id |-> <<>>,
          token_amount |-> get_token_amount_from_price(amount_paid)]

\* (package_price_id, token_amount) of record_purchase; a token_amount that
\* is no integer (as_i64() is None) falls back to the amount table
package_price_and_tokens(package_price_array, amount_paid) ==
    IF package_price_array # <<>>
    THEN [package_price_id |-> <<package_price_array[1].id>>,
          token_amount |-> IF package_price_array[1].token_amount \in Int
                           THEN package_price_array[1].token_amount
                           ELSE get_token_amount_from_price(amount_paid)]
    ELSE [package_price_id |-> <<>>,
          token_amount |-> get_token_amount_from_price(amount_paid)]

\* the purchases row record_purchase inserts
Purchase(l, package_id, pt) ==
    [user_id |-> l.user_id, stripe_payment_intent_id |-> l.stripe_payment_intent_id,
     stripe_price_id |-> l.stripe_price_id, stripe_product_id |-> l.stripe_product_id,
     package_id |-> package_id, package_price_id |-> pt.package_price_id,
     amount_paid |-> l.amount_paid, currency |-> l.currency,
     tokens_purchased |-> pt.token_amount, status |-> "completed"]

\* stripe::record_purchase, continuing the executions P
record_purchase(P) ==
    LET \* get_authenticated_db
        authed == Then(P, LAMBDA p : {Return(p, "DbErr"), p})
        \* stripe::Price::retrieve and its product
        priced == Then(authed, LAMBDA p :
            {Return(p, "PriceErr")}
            \cup IF p.l.stripe_price_id \in DOMAIN PriceProduct
                 THEN {[p EXCEPT !.l.stripe_product_id = PriceProduct[p.l.stripe_price_id]]}
                 ELSE {})
        packaged == Then(priced, LAMBDA p :
            LET package_array == packages_by_product(p.st.packages, p.l.stripe_product_id)
            IN  {Return(p, "DbErr")}                       \* the lookup fails
                \cup IF package_array = <<>>
                     THEN {Return(p, "DbErr"),             \* the creation fails
                           [p EXCEPT !.st.packages =
                                        Append(@, Package(Len(@) + 1, p.l.stripe_product_id)),
                                     !.l.package_created = TRUE,
                                     !.package_id = Len(p.st.packages) + 1]}
                     ELSE {[p EXCEPT !.package_id = package_array[1].id]})
        inserted == Then(packaged, LAMBDA p :
            LET package_price_array ==
                    package_prices_by_price(p.st.package_prices, p.l.stripe_price_id)
                pt == package_price_and_tokens(package_price_array, p.l.amount_paid)
            IN  {Return(p, "DbErr"),                       \* the price lookup fails
                 Return(p, "DbErr"),                       \* the insert fails
                 \* verify_profile_update_after_purchase: result discarded
                 Return([p EXCEPT !.st.purchases =
                                     Append(@, Purchase(p.l, p.package_id, pt)),
                                  !.l.inserted = TRUE], "Ok")})
    IN  inserted

record_purchase_command(u, pi, price, amount, currency) ==
    record_purchase({[st |-> PurchaseState,
                      l |-> PurchaseCall("recordPurchase", u, pi, price, amount, currency),
                      package_id |-> 0, go |-> TRUE]})

\* mutant: only a cancelled payment is refused
payment_succeeded_unless_canceled(status) == status # "canceled"

\* payment_intent.status == PaymentIntentStatus::Succeeded
payment_succeeded(status) == status = "succeeded"

\* stripe::complete_purchase
complete_purchase(pi, u) ==
    LET intent == PaymentIntents[pi]
        start == {[st |-> PurchaseState,
                   l |-> PurchaseCall("completePurchase", u, pi,
                            IF intent.price_id = <<>> THEN "unknown_price"
                            ELSE intent.price_id[1],
                            intent.amount, intent.currency),
                   package_id |-> 0, go |-> TRUE]}
        \* stripe::PaymentIntent::retrieve
        retrieved == Then(start, LAMBDA p :
            {Return(p, "IntentErr"),
             IF payment_succeeded(intent.status)
             THEN [p EXCEPT !.l.intent_status = intent.status]
             ELSE Return([p EXCEPT !.l.intent_status = intent.status],
                         "PaymentNotSucceeded")})
    IN  record_purchase(retrieved)

\* the package_prices tables the purchase commands are run over: none, or
\* price_1 mirrored with a token amount of its own
PriceTables == {<<>>, <<PackagePrice("pp_1", "price_1", 250)>>}

InitPurchase ==
    /\ rows = <<>>
    /\ profile = [u \in Users |-> NoCustomer]
    /\ pmCustomer = [pm \in PMs |-> NoCustomer]
    /\ custDefault = [c \in Customers |-> NoPM]
    /\ pristine = TRUE
    /\ subs = <<>>
    /\ subHad = <<>>
    /\ subscription = [u \in Users |-> NoSubscription]
    /\ packages = <<>>
    /\ package_prices \in PriceTables
    /\ purchases = <<>>
    /\ InitRest

CommitPurchase(p) ==
    /\ Len(p.st.purchases) <= MaxPurchases
    /\ packages' = p.st.packages
    /\ package_prices' = p.st.package_prices
    /\ purchases' = p.st.purchases
    /\ UNCHANGED <<pmVars, subVars, raceVars, localVars>>

\* the payment-intent ids record_purchase is called with directly: one of an
\* intent that succeeded, one of an intent that did not
RecordedPIs == {"pi_1", "pi_2"}

RecordPurchaseOutcomes ==
    UNION {record_purchase_command(u, pi, price, amount, currency) :
             <<u, pi, price, amount, currency>> \in
                 Users \X RecordedPIs \X PriceIds \X Amounts \X Currencies}

CompletePurchaseOutcomes ==
    UNION {complete_purchase(pi, u) : <<pi, u>> \in PIs \X Users}

RecordPurchase == \E p \in RecordPurchaseOutcomes : CommitPurchase(p)

CompletePurchase == \E p \in CompletePurchaseOutcomes : CommitPurchase(p)

NextPurchase ==
    \/ CompletePurchase
    \/ RecordPurchase

SpecPurchase == InitPurchase /\ [][NextPurchase]_vars

\* ------------------------------------------------------- stores on the device
\* The commands of session.rs, enhanced_store.rs and stronghold.rs work on
\* the store objects the store plugin keeps in memory and on a process-wide
\* cache.  An execution of one of them is [st, res, value]: the state after
\* it, what it returns, and the value an Ok carries.  app.store(..) can fail
\* before anything is changed; store.save() can fail after the keys were set
\* or deleted in memory, which the failure does not undo.
LocalState == [session |-> session, store |-> store, backup |-> backup]

LocalOutcome(s, res, value) == [st |-> s, res |-> res, value |-> value]

\* mutant: the refresh token is written under the access-token key
store_tokens_one_key(s, access_token, refresh_token) ==
    LET set == [s EXCEPT !.session.access_token = <<refresh_token>>]
    IN  {LocalOutcome(s, "StoreErr", <<>>),
         LocalOutcome(set, "Ok", <<>>),
         LocalOutcome(set, "SaveErr", <<>>)}

\* session::store_tokens
store_tokens(s, access_token, refresh_token) ==
    LET set == [s EXCEPT !.session = [access_token |-> <<access_token>>,
                                      refresh_token |-> <<refresh_token>>]]
    IN  {LocalOutcome(s, "StoreErr", <<>>),
         LocalOutcome(set, "Ok", <<>>),
         LocalOutcome(set, "SaveErr", <<>>)}

\* session::check_session
check_session(s) ==
    LET has_access == s.session.access_token # <<>>
        has_refresh == s.session.refresh_token # <<>>
    IN  {LocalOutcome(s, "StoreErr", <<>>),
         LocalOutcome(s, "Ok", has_access /\ has_refresh)}

\* session::get_tokens
get_tokens(s) ==
    {LocalOutcome(s, "StoreErr", <<>>),
     IF s.session.access_token = <<>> THEN LocalOutcome(s, "No access token found", <<>>)
     ELSE IF s.session.refresh_token = <<>> THEN LocalOutcome(s, "No refresh token found", <<>>)
     ELSE LocalOutcome(s, "Ok", <<s.session.access_token[1], s.session.refresh_token[1]>>)}

\* session::logout
logout(s) ==
    LET deleted == [s EXCEPT !.session = NoTokens]
    IN  {LocalOutcome(s, "StoreErr", <<>>),
         LocalOutcome(deleted, "Ok", <<>>),
         LocalOutcome(deleted, "SaveErr", <<>>)}

\* session::update_tokens
update_tokens(s, access_token, refresh_token) ==
    store_tokens(s, access_token, refresh_token)

\* the salt fast_password_hash appends to the password
Salt == "aura-stronghold-salt-2024"

\* Sha256::digest: the digest stands for the bytes hashed, distinct bytes
\* having distinct digests
Sha256(bytes) == [sha256 |-> bytes]

\* stronghold::fast_password_hash: [hash, cache], the hash returned and the
\* cache after the call
fast_password_hash(cache, password) ==
    IF cache # <<>>
    THEN [hash |-> cache[1], cache |-> cache]
    ELSE LET hash == Sha256(<<password, Salt>>)
         IN  [hash |-> hash, cache |-> <<hash>>]

\* stronghold::clear_password_cache: a OnceLock cannot be cleared
clear_password_cache(cache) == cache

\* enhanced_store::store_get
store_get(s, store_id) ==
    {LocalOutcome(s, "StoreErr", <<>>), LocalOutcome(s, "Ok", s.store[store_id].data)}

\* enhanced_store::store_set
store_set(s, store_id, data) ==
    LET set == [s EXCEPT !.store[store_id].data = <<data>>]
    IN  {LocalOutcome(s, "StoreErr", <<>>),
         LocalOutcome(set, "Ok", <<>>),
         LocalOutcome(set, "SaveErr", <<>>)}

\* enhanced_store::store_clear
store_clear(s, store_id) ==
    LET cleared == [s EXCEPT !.store[store_id] = EmptyStore]
    IN  {LocalOutcome(s, "StoreErr", <<>>),
         LocalOutcome(cleared, "Ok", <<>>),
         LocalOutcome(cleared, "SaveErr", <<>>)}

\* mutant: a store without data empties the backup
backup_data_replaced(data, old) == data

\* the "data" key of the backup store after store_backup: set only when the
\* store has data
backup_data(data, old) == IF data # <<>> THEN data ELSE old

\* enhanced_store::store_backup
store_backup(s, store_id, backup_name) ==
    LET copied == [s EXCEPT !.backup[<<store_id, backup_name>>] =
                               backup_data(s.store[store_id].data, @)]
    IN  {LocalOutcome(s, "StoreErr", <<>>),
         LocalOutcome(copied, "Ok", <<>>),
         LocalOutcome(copied, "SaveErr", <<>>)}

\* enhanced_store::store_restore
store_restore(s, store_id, backup_name) ==
    LET data == s.backup[<<store_id, backup_name>>]
        restored == [s EXCEPT !.store[store_id] =
                                 [data |-> data, restored_from |-> <<backup_name>>]]
    IN  {LocalOutcome(s, "StoreErr", <<>>)}
        \cup IF data # <<>>
             THEN {LocalOutcome(restored, "Ok", <<>>),
                   LocalOutcome(restored, "SaveErr", <<>>)}
             ELSE {LocalOutcome(s, "Backup contains no data", <<>>)}

InitLocal ==
    /\ Init
    /\ pmCustomer = [pm \in PMs |-> NoCustomer]

\* what a command's answer tells its caller about the session store: an Ok
\* says the tokens were set or deleted, a failure to open the store that
\* nothing happened, a failed save leaves the caller without either
Told(o, op, pair) ==
    IF o.res = "Ok" THEN [op |-> op, settled |-> TRUE, pair |-> pair]
    ELSE IF o.res = "StoreErr" THEN lastTokens
    ELSE [op |-> op, settled |-> FALSE, pair |-> pair]

CommitLocal(o) ==
    /\ session' = o.st.session
    /\ store' = o.st.store
    /\ backup' = o.st.backup
    /\ UNCHANGED <<pmVars, subVars, purchaseVars, raceVars>>

StoreTokens ==
    \E access_token \in Tokens, refresh_token \in Tokens :
        \E o \in store_tokens(LocalState, access_token, refresh_token) :
            /\ CommitLocal(o)
            /\ lastTokens' = Told(o, "store_tokens", <<access_token, refresh_token>>)
            /\ UNCHANGED <<backedUp, hashCache>>

UpdateTokens ==
    \E access_token \in Tokens, refresh_token \in Tokens :
        \E o \in update_tokens(LocalState, access_token, refresh_token) :
            /\ CommitLocal(o)
            /\ lastTokens' = Told(o, "update_tokens", <<access_token, refresh_token>>)
            /\ UNCHANGED <<backedUp, hashCache>>

Logout ==
    \E o \in logout(LocalState) :
        /\ CommitLocal(o)
        /\ lastTokens' = Told(o, "logout", <<>>)
        /\ UNCHANGED <<backedUp, hashCache>>

FastPasswordHash ==
    \E password \in Passwords :
        /\ hashCache' = fast_password_hash(hashCache, password).cache
        /\ UNCHANGED <<pmVars, subVars, purchaseVars, raceVars,
                       session, lastTokens, store, backup, backedUp>>

StoreSet ==
    \E store_id \in StoreIds, data \in Data :
        \E o \in store_set(LocalState, store_id, data) :
            /\ CommitLocal(o)
            /\ UNCHANGED <<lastTokens, backedUp, hashCache>>

StoreClear ==
    \E store_id \in StoreIds :
        \E o \in store_clear(LocalState, store_id) :
            /\ CommitLocal(o)
            /\ UNCHANGED <<lastTokens, backedUp, hashCache>>

\* backedUp keeps what the store held when the backup command last returned
\* Ok; a backup whose save failed leaves it unsettled
StoreBackup ==
    \E store_id \in StoreIds, backup_name \in BackupNames :
        \E o \in store_backup(LocalState, store_id, backup_name) :
            /\ CommitLocal(o)
            /\ backedUp' = [backedUp EXCEPT ![<<store_id, backup_name>>] =
                   IF o.res = "Ok" THEN [taken |-> "yes", data |-> store[store_id].data]
                   ELSE IF o.res = "StoreErr" THEN @
                   ELSE [taken |-> "unsettled", data |-> <<>>]]
            /\ UNCHANGED <<lastTokens, hashCache>>

StoreRestore ==
    \E store_id \in StoreIds, backup_name \in BackupNames :
        \E o \in store_restore(LocalState, store_id, backup_name) :
            /\ CommitLocal(o)
            /\ UNCHANGED <<lastTokens, backedUp, hashCache>>

NextLocal ==
    \/ StoreTokens
    \/ UpdateTokens
    \/ Logout
    \/ FastPasswordHash
    \/ StoreSet
    \/ StoreClear
    \/ StoreBackup
    \/ StoreRestore

SpecLocal == InitLocal /\ [][NextLocal]_vars

\* ------------------------------------------- two overlapping setDefault calls
\* set_default_payment_method_integrated request by request: each command
\* invocation is a task of its own whose requests are awaited one after the
\* other, so the requests of two invocations interleave.  A call is
\* [payment_method_id, pc, res, silent, raced]: pc is the request it issues
\* next, res what it returned once done, silent whether its best-effort
\* unset failed, raced whether it issued its unset between the other call's
\* unset and patch.  Both methods are stored for the user and attached to a
\* customer, so the attach branch is not taken.
RaceUser == "u1"

RaceCall(pm) ==
    [payment_method_id |-> pm, pc |-> "retrieve", res |-> "none",
     silent |-> FALSE, raced |-> FALSE]

Returned(i, res) == [calls EXCEPT ![i].pc = "done", ![i].res = res]

InitRace ==
    /\ rows = <<PaymentMethod(RaceUser, CustomerOf[RaceUser], "pm_A", TRUE, TRUE),
                PaymentMethod(RaceUser, CustomerOf[RaceUser], "pm_B", FALSE, TRUE)>>
    /\ profile = [u \in Users |-> CustomerOf[u]]
    /\ pmCustomer \in [PMs -> Customers]
    /\ custDefault = [c \in Customers |-> IF c = CustomerOf[RaceUser] THEN "pm_A" ELSE NoPM]
    /\ pristine = TRUE
    /\ subs = <<>>
    /\ subHad = <<>>
    /\ subscription = [u \in Users |-> NoSubscription]
    /\ packages = <<>>
    /\ package_prices = <<>>
    /\ purchases = <<>>
    /\ calls \in {<<RaceCall(a), RaceCall(b)>> : <<a, b>> \in {x \in PMs \X PMs : x[1] # x[2]}}
    /\ session = NoTokens
    /\ lastTokens = [op |-> "none", settled |-> TRUE, pair |-> <<>>]
    /\ store = [s \in StoreIds |-> EmptyStore]
    /\ backup = [b \in StoreIds \X BackupNames |-> <<>>]
    /\ backedUp = [b \in StoreIds \X BackupNames |-> [taken |-> "never", data |-> <<>>]]
    /\ hashCache = <<>>

\* stripe::PaymentMethod::retrieve and the match on pm.customer
RaceRetrieve(i) ==
    /\ calls[i].pc = "retrieve"
    /\ \/ calls' = Returned(i, "RetrieveErr")
       \/ calls' = IF pmCustomer[calls[i].payment_method_id] # CustomerOf[RaceUser]
                   THEN Returned(i, "WrongCustomer")
                   ELSE [calls EXCEPT ![i].pc = "set_default"]
    /\ UNCHANGED <<pmVars, subVars, purchaseVars, localVars>>

\* set_default_payment_method(customer_id, payment_method_id).await?
RaceSetDefault(i) ==
    /\ calls[i].pc = "set_default"
    /\ \E q \in CustomerUpdate([st |-> State,
                                l |-> Call("setDefault", RaceUser, CustomerOf[RaceUser],
                                           calls[i].payment_method_id, <<>>),
                                go |-> TRUE],
                               CustomerOf[RaceUser], calls[i].payment_method_id) :
           /\ custDefault' = q.st.custDefault
           /\ calls' = IF q.go THEN [calls EXCEPT ![i].pc = "unset"]
                       ELSE Returned(i, q.l.res)
    /\ UNCHANGED <<rows, profile, pmCustomer, pristine, subVars, purchaseVars, localVars>>

\* database::update_payment_method up to its unset: get_authenticated_db,
\* then unset_all_default_payment_methods with the result discarded
RaceUnset(i) ==
    /\ calls[i].pc = "unset"
    /\ \/ calls' = Returned(i, "DbErr") /\ UNCHANGED rows
       \/ \E o \in UnsetOutcomes(rows, RaceUser) :
              /\ rows' = o.rows
              /\ calls' = [calls EXCEPT ![i].pc = "patch", ![i].silent = o.silent,
                                        ![i].raced = (calls[3 - i].pc = "patch")]
    /\ UNCHANGED <<profile, pmCustomer, custDefault, pristine,
                   subVars, purchaseVars, localVars>>

\* database::update_payment_method from its PATCH of the method's row on
RacePatch(i) ==
    /\ calls[i].pc = "patch"
    /\ \/ calls' = Returned(i, "DbErr") /\ UNCHANGED rows
       \/ /\ rows' = patch_payment_method(rows, calls[i].payment_method_id, RaceUser,
                                          <<TRUE>>, <<>>)
          /\ calls' = Returned(i, IF HasRow(rows, calls[i].payment_method_id, RaceUser)
                                  THEN "Ok" ELSE "DbErr")
    /\ UNCHANGED <<profile, pmCustomer, custDefault, pristine,
                   subVars, purchaseVars, localVars>>

Retrieving == \E i \in 1..2 : RaceRetrieve(i)

SettingDefault == \E i \in 1..2 : RaceSetDefault(i)

Unsetting == \E i \in 1..2 : RaceUnset(i)

Patching == \E i \in 1..2 : RacePatch(i)

NextRace ==
    \/ Retrieving
    \/ SettingDefault
    \/ Unsetting
    \/ Patching

SpecRace == InitRace /\ [][NextRace]_vars

\* ------------------------------------------------------------------ claims
\* The claims about one command are stated of every execution p of the
\* command from every reachable state: rows, pmCustomer, custDefault are the
\* state before the call, p.st the state after it, p.l its arguments, the
\* answers it got and its result.
UserRows(rs, u) == SelectSeq(rs, LAMBDA r : r.user_id = u)

ActiveRows(rs, u) == SelectSeq(rs, LAMBDA r : r.user_id = u /\ r.is_active)

ActiveDefaults(rs, u) == SelectSeq(rs, LAMBDA r : r.user_id = u /\ r.is_active /\ r.is_default)

RowsOf(rs, pm, u) ==
    SelectSeq(rs, LAMBDA r : r.user_id = u /\ r.stripe_payment_method_id = pm)

All(s, Test(_)) == \A i \in 1..Len(s) : Test(s[i])

\* C1: after any sequence of completed registerPaymentMethod and setDefault
\* calls for one user, that user has at most one active row with is_default
\* = true.  Stated here for the sequences in which, moreover, no request
\* whose result the code discards has failed.
C1_SingleActiveDefault ==
    pristine => \A u \in Users : Len(ActiveDefaults(rows, u)) <= 1

\* C2: when a remove call has completed and exactly one active payment
\* method remains for the user, that method has is_default = true.  Stated
\* for the remove calls none of whose discarded requests failed.
C2_SoleActiveIsDefault ==
    \A p \in RemoveOutcomes :
        (p.l.res = "Ok" /\ ~p.l.silent /\ Len(ActiveRows(p.st.rows, p.l.user_id)) = 1)
        => ActiveRows(p.st.rows, p.l.user_id)[1].is_default

\* The case of C3: the user's active methods are one other method, marked
\* default, and pm, not marked default.
TwoMethodsOtherDefault(rs, pm, u) ==
    \E other \in PMs \ {pm} :
        /\ RowsOf(ActiveRows(rs, u), pm, u) # <<>>
        /\ RowsOf(ActiveRows(rs, u), other, u) # <<>>
        /\ All(ActiveRows(rs, u), LAMBDA r :
                r.is_default = (r.stripe_payment_method_id = other))

DefaultMovedTo(rs, pm, u) ==
    All(ActiveRows(rs, u), LAMBDA r : r.is_default = (r.stripe_payment_method_id = pm))

C4_LocalFollowsProcessor ==
    \A p \in SetDefaultOutcomes :
        /\ (p.l.customer_update = "error" => p.l.res # "Ok" /\ p.st.rows = rows)
        /\ (p.l.res = "Ok" => p.l.customer_update = "ok")

C4_Witness ==
    \E p \in SetDefaultOutcomes :
        /\ p.l.customer_update = "error" /\ p.l.res = "CustomerUpdateErr"
        /\ TwoMethodsOtherDefault(rows, p.l.payment_method_id, p.l.user_id)
        /\ p.st.rows = rows

\* C5: the record registerPaymentMethod persists has is_default = true
\* exactly when isDefaultRequested is true or the user had no stored method
\* before the call (unspecified counts as not requested).
C5_ShouldBeDefault ==
    \A p \in RegisterOutcomes :
        p.l.res = "Ok"
        => /\ Len(p.st.rows) = Len(rows) + 1
           /\ p.st.rows[Len(p.st.rows)].stripe_payment_method_id = p.l.payment_method_id
           /\ p.st.rows[Len(p.st.rows)].is_default
                = (p.l.is_default = <<TRUE>> \/ UserRows(rows, p.l.user_id) = <<>>)

\* a first method registered with isDefaultRequested unspecified, and a later
\* one registered so as well
C5_Witness ==
    /\ \E p \in RegisterOutcomes :
          /\ p.l.res = "Ok" /\ p.l.is_default = <<>>
          /\ Len(rows) = 1 /\ Len(p.st.rows) = 2 /\ ~p.st.rows[2].is_default
    /\ rows[1].is_default /\ pristine

\* C6: registerPaymentMethod makes the method the processor customer's
\* default exactly when the row it persists is marked default.
C6_ProcessorDefaultIffLocalDefault ==
    \A p \in RegisterOutcomes :
        p.l.res = "Ok"
        => (p.l.customer_update = "ok") = p.st.rows[Len(p.st.rows)].is_default

\* C7: registerPaymentMethod on a method already attached to the customer
\* attempts no attach and does not fail on the attachment; unless one of its
\* other requests fails it returns the record it persisted.
C7_IdempotentAttach ==
    \A p \in RegisterOutcomes :
        pmCustomer[p.l.payment_method_id] = p.l.customer_id
        => /\ p.l.attach = "none"
           /\ p.st.pmCustomer = pmCustomer
           /\ p.l.res \in {"Ok", "RetrieveErr", "CustomerUpdateErr", "DbErr"}
           /\ (p.l.res = "Ok" =>
                 /\ Len(p.st.rows) = Len(rows) + 1
                 /\ p.st.rows[Len(p.st.rows)].stripe_payment_method_id
                      = p.l.payment_method_id)

\* the second call: the method is attached and already has its record
C7_Witness ==
    \E p \in RegisterOutcomes :
        /\ pmCustomer[p.l.payment_method_id] = p.l.customer_id
        /\ HasRow(rows, p.l.payment_method_id, p.l.user_id)
        /\ p.l.res = "Ok" /\ p.l.attach = "none"
        /\ Len(RowsOf(p.st.rows, p.l.payment_method_id, p.l.user_id)) = 2

\* C8: when registerPaymentMethod's attach is rejected because the method is
\* permanently unusable, the call fails with PermanentlyUnusable and the
\* user's local record of the method has been removed.  Stated for the calls
\* made while the user has such a record.
C8_RegisterUnusableCleansUp ==
    \A p \in RegisterOutcomes :
        (p.l.attach = "unusable" /\ HasRow(rows, p.l.payment_method_id, p.l.user_id))
        => /\ p.l.res = "Unusable"
           /\ ~HasRow(p.st.rows, p.l.payment_method_id, p.l.user_id)

C11_SubscriptionPreconditions ==
    \A p \in CreateSubscriptionOutcomes :
        LET u == p.l.user_id
            noCustomer == profile[u] = NoCustomer
            noMethod == UserRows(rows, u) = <<>>
        IN  (noCustomer \/ noMethod)
            => /\ p.l.res \in {IF noCustomer THEN "NoCustomer" ELSE "NoPaymentMethod", "DbErr"}
               /\ p.l.sub_create = "none" /\ p.l.attach = "none"
               /\ p.l.customer_update = "none"
               /\ p.st.subs = subs /\ p.st.pmCustomer = pmCustomer
               /\ p.st.custDefault = custDefault
               /\ p.st.subscription = subscription

\* a user with a customer reference and no stored method is refused
C11_Witness ==
    \E p \in CreateSubscriptionOutcomes :
        /\ profile[p.l.user_id] # NoCustomer /\ UserRows(rows, p.l.user_id) = <<>>
        /\ p.l.res = "NoPaymentMethod" /\ p.st.subs = subs

\* the methods createSubscription may select: the rows marked default, else
\* (no row being marked) the row the query returns first
Selectable(rs, u) ==
    LET marked == {i \in 1..Len(rs) : rs[i].user_id = u /\ rs[i].is_default}
        mine == {i \in 1..Len(rs) : rs[i].user_id = u}
    IN  {rs[i].stripe_payment_method_id : i \in IF marked # {} THEN marked ELSE mine}

\* C12: every createSubscription that issues the subscription-create call has
\* selected the row marked default (else the first row), has found that
\* method attached or attached it successfully, and has then set it as the
\* customer's default; the subscription created names that method as its
\* default payment method.  When the retrieve, attach or set-default step
\* fails no subscription is created.
C12_AttachedDefaultBeforeSubscribe ==
    \A p \in CreateSubscriptionOutcomes :
        LET pm == p.l.payment_method_id
            c == p.l.customer_id
        IN  /\ p.l.sub_create # "none" =>
                /\ c = profile[p.l.user_id] /\ c # NoCustomer
                /\ pm \in Selectable(rows, p.l.user_id)
                /\ IF pmCustomer[pm] = NoCustomer
                   THEN p.l.attach = "ok" /\ p.st.pmCustomer[pm] = c
                   ELSE p.l.attach = "none" /\ p.st.pmCustomer[pm] = pmCustomer[pm]
                /\ p.l.customer_update = "ok" /\ p.st.custDefault[c] = pm
            /\ p.l.sub_create = "ok" =>
                /\ Len(p.st.subs) = Len(subs) + 1
                /\ p.st.subs[Len(p.st.subs)].default_payment_method = pm
                /\ p.st.subs[Len(p.st.subs)].customer = c
            /\ (p.l.res = "RetrieveErr" \/ p.l.attach \in {"unusable", "error"}
                  \/ p.l.customer_update = "error")
               => p.l.sub_create = "none" /\ p.st.subs = subs /\ p.l.res # "Ok"

\* the selected method was attached to no customer, is attached by the call
\* and named by the subscription
C12_Witness ==
    \E p \in CreateSubscriptionOutcomes :
        /\ p.l.attach = "ok" /\ p.l.customer_update = "ok" /\ p.l.res = "Ok"
        /\ pmCustomer[p.l.payment_method_id] = NoCustomer
        /\ Len(UserRows(rows, p.l.user_id)) = 2
        /\ p.st.subs[p.l.created].default_payment_method = p.l.payment_method_id
        /\ p.st.custDefault[p.l.customer_id] = p.l.payment_method_id

\* C13: when the profile write at the end of createSubscription fails, the
\* call returns an error, the subscription it created still exists on the
\* processor, uncancelled, and the profile's subscription id, status and
\* period end are unchanged.
C13_WriteFailureLeavesSubscription ==
    \A p \in CreateSubscriptionOutcomes :
        p.l.write = "error"
        => /\ p.l.res # "Ok"
           /\ p.l.sub_create = "ok"
           /\ Len(p.st.subs) = Len(subs) + 1
           /\ p.st.subs[p.l.created].status = "active"
           /\ ~p.st.subs[p.l.created].cancel_at_period_end
           /\ p.st.subscription = subscription

\* the write fails for a user whose profile already references a subscription
C13_Witness ==
    \E p \in CreateSubscriptionOutcomes :
        /\ subscription[p.l.user_id].subscription_id # 0
        /\ p.l.write = "error" /\ p.l.res = "DbErr"
        /\ Len(p.st.subs) = Len(subs) + 1
        /\ p.st.subscription = subscription

\* C14: a successful cancelSubscription leaves the processor subscription
\* with cancel_at_period_end set and its status as it was, and the profile's
\* subscription status "canceled" whatever status the processor returned;
\* when the processor update fails the profile is unchanged.
C14_CancelAtPeriodEnd ==
    \A p \in CancelSubscriptionOutcomes :
        LET sid == p.l.subscription_id
        IN  /\ p.l.res = "Ok" =>
                /\ sid \in 1..Len(subs)
                /\ p.st.subs[sid].cancel_at_period_end
                /\ p.st.subs[sid].status = subs[sid].status
                /\ p.l.status = subs[sid].status
                /\ p.st.subscription[p.l.user_id].subscription_id = sid
                /\ p.st.subscription[p.l.user_id].subscription_status = "canceled"
            /\ p.l.sub_update = "error" =>
                /\ p.l.res # "Ok"
                /\ p.st.subscription = subscription /\ p.st.subs = subs

\* the processor returns past_due and the profile, which held active, is set
\* to canceled
C14_Witness ==
    \E p \in CancelSubscriptionOutcomes :
        /\ p.l.res = "Ok" /\ p.l.status = "past_due"
        /\ subscription[p.l.user_id].subscription_status = "active"
        /\ ~subs[p.l.subscription_id].cancel_at_period_end
        /\ p.st.subs[p.l.subscription_id].cancel_at_period_end
        /\ p.st.subscription[p.l.user_id].subscription_status = "canceled"

\* C15: in every reachable state the subscription status and period end on a
\* profile are values the processor's subscription has or has had: the
\* status is one the subscription has had, the period end one it has reached.
C15_LaggingMirror ==
    \A u \in Users :
        subscription[u].subscription_id # 0
        => /\ subscription[u].subscription_id \in 1..Len(subs)
           /\ subscription[u].subscription_status
                \in subHad[subscription[u].subscription_id]
           /\ subscription[u].subscription_period_end
                \in 1..subs[subscription[u].subscription_id].current_period_end

\* C16: after a successful syncSubscriptionStatus, and after a
\* syncAllUserSubscriptions that reports one updated subscription and no
\* error, the profile's subscription status and period end are the
\* processor's current values for that subscription, whatever the profile
\* held before.
C16_SyncRepairsDrift ==
    /\ \A p \in SyncSubscriptionStatusOutcomes :
          p.l.res = "Ok"
          => /\ p.l.subscription_id \in 1..Len(subs)
             /\ p.st.subs = subs
             /\ p.st.subscription[p.l.user_id] =
                  [subscription_id |-> p.l.subscription_id,
                   subscription_status |-> subs[p.l.subscription_id].status,
                   subscription_period_end |->
                       subs[p.l.subscription_id].current_period_end]
    /\ \A p \in SyncAllUserSubscriptionsOutcomes :
          (p.l.res = "Ok" /\ p.l.updated_subscriptions = 1 /\ p.l.errors = 0)
          => LET sid == subscription[p.l.user_id].subscription_id
             IN  /\ sid \in 1..Len(subs)
                 /\ p.st.subs = subs
                 /\ p.st.subscription[p.l.user_id] =
                      [subscription_id |-> sid,
                       subscription_status |-> subs[sid].status,
                       subscription_period_end |-> subs[sid].current_period_end]

\* the profile holds a locally written canceled and a past period end; the
\* processor's subscription is active in a later period
C16_Witness ==
    \E p \in SyncAllUserSubscriptionsOutcomes :
        LET sid == subscription[p.l.user_id].subscription_id
        IN  /\ sid # 0
            /\ subscription[p.l.user_id].subscription_status = "canceled"
            /\ subscription[p.l.user_id].subscription_period_end = 1
            /\ subs[sid].status = "active" /\ subs[sid].current_period_end = 2
            /\ p.l.res = "Ok" /\ p.l.updated_subscriptions = 1 /\ p.l.errors = 0
            /\ p.st.subscription[p.l.user_id].subscription_status = "active"
            /\ p.st.subscription[p.l.user_id].subscription_period_end = 2

\* the purchase row a successful recordPurchase / completePurchase inserted
Inserted(p) == p.st.purchases[Len(p.st.purchases)]

PriceRows(pp, price) == SelectSeq(pp, LAMBDA r : r.stripe_price_id = price)

ProductPackages(pk, product) == SelectSeq(pk, LAMBDA r : r.stripe_product_id = product)

\* the price-to-token table of the specification
TokenTable(amount) ==
    IF amount = 149 THEN 100
    ELSE IF amount = 749 THEN 500
    ELSE IF amount = 1499 THEN 1000
    ELSE IF amount = 3099 THEN 5000
    ELSE IF amount = 6299 THEN 25000
    ELSE IF amount = 15999 THEN 100000
    ELSE 100

\* C17: when no package-price row exists for the price id, the purchase
\* recordPurchase stores has tokens_purchased as the table gives it for the
\* amount paid: 149 -> 100, 749 -> 500, 1499 -> 1000, 3099 -> 5000,
\* 6299 -> 25000, 15999 -> 100000, and 100 for every other amount.
C17_TokenTable ==
    \A p \in RecordPurchaseOutcomes :
        (p.l.res = "Ok" /\ PriceRows(package_prices, p.l.stripe_price_id) = <<>>)
        => /\ Len(p.st.purchases) = Len(purchases) + 1
           /\ Inserted(p).amount_paid = p.l.amount_paid
           /\ Inserted(p).tokens_purchased = TokenTable(p.l.amount_paid)

\* 1499 paid with no package-price row yields 1000 tokens, 777 yields 100
C17_Witness ==
    /\ \E p \in RecordPurchaseOutcomes :
          /\ p.l.res = "Ok" /\ p.l.amount_paid = 1499
          /\ PriceRows(package_prices, p.l.stripe_price_id) = <<>>
          /\ Inserted(p).tokens_purchased = 1000
    /\ \E p \in RecordPurchaseOutcomes :
          /\ p.l.res = "Ok" /\ p.l.amount_paid = 777
          /\ PriceRows(package_prices, p.l.stripe_price_id) = <<>>
          /\ Inserted(p).tokens_purchased = 100
    /\ purchases # <<>>

C19_OnePackagePerProduct ==
    /\ \A product \in Products : Len(ProductPackages(packages, product)) <= 1
    /\ \A p \in RecordPurchaseOutcomes :
          LET product == p.l.stripe_product_id
              before == ProductPackages(packages, product)
              after == ProductPackages(p.st.packages, product)
          IN  /\ p.l.res = "Ok" =>
                  /\ product = PriceProduct[p.l.stripe_price_id]
                  /\ Len(after) = 1
                  /\ Inserted(p).package_id = after[1].id
                  /\ Inserted(p).stripe_product_id = product
                  /\ p.l.package_created = (before = <<>>)
              /\ IF p.l.package_created
                 THEN /\ before = <<>>
                      /\ Len(p.st.packages) = Len(packages) + 1
                      /\ p.st.packages[Len(p.st.packages)].stripe_product_id = product
                 ELSE p.st.packages = packages

\* a second price of a product whose package row an earlier call created
C19_Witness ==
    \E p \in RecordPurchaseOutcomes :
        /\ Len(ProductPackages(packages, "prod_1")) = 1
        /\ purchases # <<>> /\ purchases[1].stripe_price_id = "price_1"
        /\ p.l.stripe_price_id = "price_2" /\ p.l.res = "Ok"
        /\ ~p.l.package_created /\ p.st.packages = packages
        /\ Inserted(p).package_id = purchases[1].package_id

\* C20: completePurchase inserts a purchase row only when the processor
\* reports the payment intent as succeeded; for every other status it fails
\* with PaymentNotSucceeded and creates no purchase row and no package row.
C20_OnlySucceededIsRecorded ==
    \A p \in CompletePurchaseOutcomes :
        LET status == PaymentIntents[p.l.stripe_payment_intent_id].status
        IN  /\ p.st.purchases # purchases =>
                /\ status = "succeeded" /\ p.l.intent_status = "succeeded"
                /\ Inserted(p).stripe_payment_intent_id = p.l.stripe_payment_intent_id
            /\ status # "succeeded" =>
                /\ p.l.res \in {"PaymentNotSucceeded", "IntentErr"}
                /\ (p.l.intent_status # "none" => p.l.res = "PaymentNotSucceeded")
                /\ p.st.purchases = purchases /\ p.st.packages = packages

\* an intent still processing is refused while another has been recorded
C20_Witness ==
    \E p \in CompletePurchaseOutcomes :
        /\ p.l.intent_status = "processing" /\ p.l.res = "PaymentNotSucceeded"
        /\ p.st.purchases = purchases /\ p.st.packages = packages
        /\ purchases # <<>>

\* the purchase rows that carry payment-intent id pi
PurchasesOf(ps, pi) == SelectSeq(ps, LAMBDA r : r.stripe_payment_intent_id = pi)

\* C21: after any sequence of completePurchase / recordPurchase calls, a
\* repeat of a call that already succeeded included, there is exactly one
\* purchase row per successful payment-intent id: no call leaves a second
\* row for an intent, and a call that succeeds leaves one for its own.
C21_OnePurchasePerIntent ==
    \A p \in CompletePurchaseOutcomes \cup RecordPurchaseOutcomes :
        /\ \A pi \in PIs : Len(PurchasesOf(p.st.purchases, pi)) <= 1
        /\ p.l.res = "Ok" =>
               Len(PurchasesOf(p.st.purchases, p.l.stripe_payment_intent_id)) = 1

\* both setDefault calls have returned Ok and no best-effort unset failed
BothSetDefaultsDone ==
    \A i \in 1..2 : calls[i].pc = "done" /\ calls[i].res = "Ok" /\ ~calls[i].silent

\* C22: two concurrent setDefault calls of one user on two different
\* methods can race: when each call issues its unset-all-defaults before the
\* other's set-default, then with both calls complete two active rows of
\* the user have is_default = true; when the calls do not overlap in this
\* way, exactly one has.
C22_SetDefaultRace ==
    BothSetDefaultsDone =>
        Len(ActiveDefaults(rows, RaceUser)) =
            IF \E i \in 1..2 : calls[i].raced THEN 2 ELSE 1

\* both calls are complete and both methods are the user's active default
C22_Witness ==
    /\ BothSetDefaultsDone
    /\ \E i \in 1..2 : calls[i].raced
    /\ Len(ActiveDefaults(rows, RaceUser)) > 1

C26_PromotionReachesProcessor ==
    \A p \in RemoveOutcomes :
        LET left == UserRows(p.st.rows, p.l.user_id)
        IN  (/\ p.l.res = "Ok" /\ p.l.removed
             /\ Len(left) = 1 /\ left[1].is_active /\ left[1].is_default
             /\ pmCustomer[left[1].stripe_payment_method_id] = left[1].stripe_customer_id
             /\ All(RowsOf(rows, left[1].stripe_payment_method_id, p.l.user_id),
                    LAMBDA r : ~r.is_default))
            => p.st.custDefault[left[1].stripe_customer_id] = left[1].stripe_payment_method_id

\* C27: after any sequence of successful registerPaymentMethod calls a user
\* has at most one local record per processor payment-method id: a
\* registerPaymentMethod that succeeds for a method already stored for the
\* user inserts no second row.
C27_OneRecordPerMethod ==
    \A p \in RegisterOutcomes :
        (/\ p.l.res = "Ok"
         /\ \A pm \in PMs : Len(RowsOf(rows, pm, p.l.user_id)) <= 1)
        => \A pm \in PMs : Len(RowsOf(p.st.rows, pm, p.l.user_id)) <= 1

\* C29: registerPaymentMethod never persists a local record, nor updates a
\* customer's default, for a method that the processor reports as attached
\* to a customer other than customerRef; every local record it writes names
\* the customer the method is attached to on the processor.
C29_RegisterChecksCustomer ==
    \A p \in RegisterOutcomes :
        /\ pmCustomer[p.l.payment_method_id] \notin {NoCustomer, p.l.customer_id} =>
               /\ p.st.rows = rows
               /\ p.st.custDefault = custDefault
               /\ p.l.res # "Ok"
        /\ p.st.rows # rows =>
               p.st.pmCustomer[p.l.payment_method_id] =
                   p.st.rows[Len(p.st.rows)].stripe_customer_id

\* the processor subscriptions created for user u that are not cancelled
LiveSubscriptions(ss, u) ==
    {i \in 1..Len(ss) : ss[i].user_id = u /\ ss[i].status # "canceled"}

\* C28: createSubscription creates no second processor subscription while
\* the profile already references a live one: called for a user whose
\* profile's subscription id names an uncancelled processor subscription, it
\* leaves that subscription the only uncancelled one created for the user.
C28_OneLiveSubscription ==
    \A p \in CreateSubscriptionOutcomes :
        LET u == p.l.user_id
            sid == subscription[u].subscription_id
        IN  (sid # 0 /\ LiveSubscriptions(subs, u) = {sid})
            => /\ p.l.sub_create # "ok"
               /\ LiveSubscriptions(p.st.subs, u) = {sid}
               /\ p.st.subscription[u].subscription_id = sid

\* C24: after any sequence of store_tokens, update_tokens and logout
\* commands (the last of which told its caller what it did), check_session
\* returns true exactly when both tokens are present in the session store:
\* true after a store_tokens / update_tokens, false after a logout; and
\* get_tokens returns the most recently stored pair, or fails when a token
\* is missing.
C24_SessionFollowsCommands ==
    lastTokens.settled =>
        /\ (session.access_token # <<>> /\ session.refresh_token # <<>>)
               <=> lastTokens.op \in {"store_tokens", "update_tokens"}
        /\ \A o \in check_session(LocalState) :
               o.res = "Ok" => o.value = (lastTokens.op \in {"store_tokens", "update_tokens"})
        /\ \A o \in get_tokens(LocalState) :
               IF lastTokens.op \in {"store_tokens", "update_tokens"}
               THEN o.res \in {"Ok", "StoreErr"} /\ (o.res = "Ok" => o.value = lastTokens.pair)
               ELSE o.res # "Ok"

\* tokens were stored, with the refresh token differing from the access token
C24_Witness ==
    /\ lastTokens = [op |-> "update_tokens", settled |-> TRUE, pair |-> <<"tok_2", "tok_1">>]
    /\ \E o \in check_session(LocalState) : o.res = "Ok" /\ o.value
    /\ \E o \in get_tokens(LocalState) : o.res = "Ok" /\ o.value = <<"tok_2", "tok_1">>

\* C25: fast_password_hash returns different hashes for different
\* passwords: of two calls in the same process, whatever calls preceded
\* them, the returned hashes differ when the passwords differ and are equal
\* when the passwords are equal.
C25_DistinctPasswordsDistinctHashes ==
    \A a \in Passwords, b \in Passwords :
        LET first == fast_password_hash(hashCache, a)
            second == fast_password_hash(clear_password_cache(first.cache), b)
        IN  (first.hash = second.hash) <=> (a = b)

\* C30: store_backup(s, n) followed later by store_restore(s, n) round-trips
\* the store: a restore that succeeds leaves in s the data s held at the
\* most recent backup under n, whatever was written to or cleared from s
\* since and whatever an earlier backup under n contained; when s held no
\* data at that backup the restore fails with "Backup contains no data" and
\* leaves s unchanged.
C30_BackupRestoreRoundTrip ==
    \A store_id \in StoreIds, backup_name \in BackupNames :
        LET last == backedUp[<<store_id, backup_name>>]
        IN  last.taken = "yes" =>
                \A o \in store_restore(LocalState, store_id, backup_name) :
                    IF last.data # <<>>
                    THEN o.res = "Ok" => o.st.store[store_id].data = last.data
                    ELSE /\ o.res \in {"Backup contains no data", "StoreErr"}
                         /\ o.st.store = store

====
